---- MODULE Spec2Model ----
(***************************************************************************)
(* Model of sqlite_demo.py: one sqlite3 connection, one table `employees`, *)
(* and the four wrapper functions insert_emp, get_emps_by_name, update_pay *)
(* and remove_emp.  Rows are kept in rowid (insertion) order, which is the *)
(* order a full-table scan of a rowid table returns them in.               *)
(***************************************************************************)
EXTENDS Integers, Sequences, FiniteSets, TLC

\* ------------------------------------------------------------------ bounds
MaxRows == 2

\* ------------------------------------------------------------------ inputs
Firsts == {"John", "Jane"}
Lasts  == {"Doe", "Smith"}
Pays   == {80000, 90000, 95000}

\* Employee(first, last, pay): the plain value handed to the wrappers.
Employee == [first : Firsts, last : Lasts, pay : Pays]

\* update_pay and remove_emp read only emp.first and emp.last
Identity == [first : Firsts, last : Lasts]

\* Outcome of c.execute for a statement that writes: it either runs or the
\* engine raises (database or disk is full, I/O error on the write).
NoError == "none"
Faults  == {NoError, "OperationalError"}

\* ------------------------------------------------------------- statements
\* variant: the values bound in the wrong column order
insert_rows_swapped(t, emp) ==
    Append(t, [first |-> emp.last, last |-> emp.first, pay |-> emp.pay])

\* variant: a uniqueness constraint that drops an identical row
insert_rows_unique(t, emp) ==
    LET r == [first |-> emp.first, last |-> emp.last, pay |-> emp.pay]
    IN  IF \E i \in 1..Len(t) : t[i] = r THEN t ELSE Append(t, r)

\* INSERT INTO employees VALUES (:first, :last, :pay)
insert_rows(t, emp) ==
    Append(t, [first |-> emp.first, last |-> emp.last, pay |-> emp.pay])

\* SELECT * FROM employees WHERE last=:last ; fetchall() gives tuples
as_tuple(r) == <<r.first, r.last, r.pay>>

\* variant: the WHERE clause left out
select_all(t, lastname) ==
    [i \in 1..Len(t) |-> as_tuple(t[i])]

select_where_last(t, lastname) ==
    LET hit(r) == r.last = lastname
        rows   == SelectSeq(t, hit)
    IN  [i \in 1..Len(rows) |-> as_tuple(rows[i])]

\* variant: only the first matching row is updated
update_rows_first_match(t, first, last, pay) ==
    LET hits == {i \in 1..Len(t) : t[i].last = last /\ t[i].first = first}
    IN  [i \in 1..Len(t) |->
            IF i \in hits /\ \A j \in hits : i <= j
            THEN [t[i] EXCEPT !.pay = pay]
            ELSE t[i]]

\* variant: WHERE first=:first only
update_rows_by_first(t, first, last, pay) ==
    [i \in 1..Len(t) |->
        IF t[i].first = first THEN [t[i] EXCEPT !.pay = pay] ELSE t[i]]

\* variant: WHERE last=:last only
update_rows_by_last(t, first, last, pay) ==
    [i \in 1..Len(t) |->
        IF t[i].last = last THEN [t[i] EXCEPT !.pay = pay] ELSE t[i]]

\* UPDATE employees SET pay=:pay WHERE last=:last AND first=:first
update_rows(t, first, last, pay) ==
    [i \in 1..Len(t) |->
        IF t[i].last = last /\ t[i].first = first
        THEN [t[i] EXCEPT !.pay = pay]
        ELSE t[i]]

\* variant: only the first matching row is deleted
delete_rows_first_match(t, first, last) ==
    LET hits == {i \in 1..Len(t) : t[i].first = first /\ t[i].last = last}
        gone == {i \in hits : \A j \in hits : i <= j}
    IN  [i \in 1..(Len(t) - Cardinality(gone)) |->
            IF \E j \in gone : j <= i THEN t[i + 1] ELSE t[i]]

\* variant: WHERE last=:last only
delete_rows_by_last(t, first, last) ==
    LET keep(r) == r.last # last
    IN  SelectSeq(t, keep)

\* DELETE FROM employees WHERE first=:first AND last=:last
delete_rows(t, first, last) ==
    LET keep(r) == ~(r.first = first /\ r.last = last)
    IN  SelectSeq(t, keep)

\* rows a WHERE first/last clause selects
matching(t, first, last) ==
    {i \in 1..Len(t) : t[i].first = first /\ t[i].last = last}

\* ------------------------------------------------------------- connection
\* conn: employees is the table as the connection sees it, committed is the
\* table as of the last commit.
VARIABLES conn, last_call, prev_call, fetched, pc

vars == <<conn, last_call, prev_call, fetched, pc>>

\* sqlite3.connect(':memory:') ; CREATE TABLE employees (...)
connect ==
    [open |-> TRUE, in_transaction |-> FALSE,
     employees |-> <<>>, committed |-> <<>>]

\* c.execute of an INSERT/UPDATE/DELETE: the module opens a transaction
\* implicitly, then the statement runs; a statement that raises changes no row.
execute_dml(cn, after, exc) ==
    [cn EXCEPT !.in_transaction = TRUE,
               !.employees = IF exc = NoError THEN after ELSE cn.employees]

\* variant: the block ends without a commit
conn_exit_no_commit(cn, exc) ==
    IF exc = NoError
    THEN cn
    ELSE [cn EXCEPT !.in_transaction = FALSE, !.employees = cn.committed]

\* Connection.__exit__: commit when the block ended normally, roll back when
\* it raised; the exception is not swallowed.
conn_exit(cn, exc) ==
    IF exc = NoError
    THEN [cn EXCEPT !.in_transaction = FALSE, !.committed = cn.employees]
    ELSE [cn EXCEPT !.in_transaction = FALSE, !.employees = cn.committed]

\* with conn: c.execute(<dml>)
with_conn(cn, after, exc) == conn_exit(execute_dml(cn, after, exc), exc)

\* ------------------------------------------------------------ demo script
\* emp_1, emp_2
John == [first |-> "John", last |-> "Doe", pay |-> 80000]
Jane == [first |-> "Jane", last |-> "Doe", pay |-> 90000]

NoCall == [op |-> "none"]

\* what prev_call keeps of a call: the function and, for a write that
\* returned normally, the employee identity it was given
identity(call) ==
    IF call.op \in {"insert_emp", "update_pay", "remove_emp"}
    THEN IF call.exc = NoError
         THEN [op |-> call.op, first |-> call.first, last |-> call.last,
               exc |-> NoError]
         ELSE [op |-> call.op, exc |-> call.exc]
    ELSE [op |-> call.op]

\* the statements of the script that change the connection, in order
Script ==
    << [op |-> "insert_emp", first |-> John.first, last |-> John.last,
        pay |-> John.pay, exc |-> NoError],
       [op |-> "insert_emp", first |-> Jane.first, last |-> Jane.last,
        pay |-> Jane.pay, exc |-> NoError],
       [op |-> "update_pay", first |-> Jane.first, last |-> Jane.last,
        pay |-> 95000, exc |-> NoError],
       [op |-> "remove_emp", first |-> John.first, last |-> John.last,
        exc |-> NoError],
       [op |-> "close"] >>

OffScript == -1

\* pc = k: the calls made so far that change the connection are exactly the
\* first k of Script; OffScript once they differ.
advance(p, call) ==
    IF p # OffScript /\ p < Len(Script) /\ Script[p + 1] = call
    THEN p + 1
    ELSE OffScript

Init ==
    /\ conn = connect
    /\ last_call = NoCall
    /\ prev_call = NoCall
    /\ fetched = <<>>
    /\ pc = 0

\* a write can fail only if the statement has something to write
may_raise(writes) == IF writes THEN Faults ELSE {NoError}

insert_emp(emp, exc) ==
    /\ conn.open
    /\ Len(conn.employees) < MaxRows
    /\ LET call == [op |-> "insert_emp", first |-> emp.first,
                    last |-> emp.last, pay |-> emp.pay, exc |-> exc]
       IN  /\ conn' = with_conn(conn, insert_rows(conn.employees, emp), exc)
           /\ last_call' = call
           /\ prev_call' = identity(last_call)
           /\ fetched' = <<>>
           /\ pc' = advance(pc, call)

get_emps_by_name(lastname) ==
    /\ conn.open
    /\ fetched' = select_where_last(conn.employees, lastname)
    /\ last_call' = [op |-> "get_emps_by_name", last |-> lastname,
                     exc |-> NoError]
    /\ prev_call' = identity(last_call)
    /\ UNCHANGED <<conn, pc>>

update_pay(emp, pay, exc) ==
    /\ conn.open
    /\ exc \in may_raise(matching(conn.employees, emp.first, emp.last) # {})
    /\ LET call == [op |-> "update_pay", first |-> emp.first,
                    last |-> emp.last, pay |-> pay, exc |-> exc]
       IN  /\ conn' = with_conn(conn,
                        update_rows(conn.employees, emp.first, emp.last, pay),
                        exc)
           /\ last_call' = call
           /\ prev_call' = identity(last_call)
           /\ fetched' = <<>>
           /\ pc' = advance(pc, call)

remove_emp(emp, exc) ==
    /\ conn.open
    /\ exc \in may_raise(matching(conn.employees, emp.first, emp.last) # {})
    /\ LET call == [op |-> "remove_emp", first |-> emp.first,
                    last |-> emp.last, exc |-> exc]
       IN  /\ conn' = with_conn(conn,
                        delete_rows(conn.employees, emp.first, emp.last), exc)
           /\ last_call' = call
           /\ prev_call' = identity(last_call)
           /\ fetched' = <<>>
           /\ pc' = advance(pc, call)

\* conn.close(): the in-memory database goes away with the connection
close ==
    /\ conn.open
    /\ conn' = [open |-> FALSE, in_transaction |-> FALSE,
                employees |-> <<>>, committed |-> <<>>]
    /\ last_call' = [op |-> "close"]
    /\ prev_call' = identity(last_call)
    /\ fetched' = <<>>
    /\ pc' = advance(pc, [op |-> "close"])

Next ==
    \/ \E emp \in Employee, exc \in Faults : insert_emp(emp, exc)
    \/ \E lastname \in Lasts : get_emps_by_name(lastname)
    \/ \E emp \in Identity, pay \in Pays, exc \in Faults :
          update_pay(emp, pay, exc)
    \/ \E emp \in Identity, exc \in Faults : remove_emp(emp, exc)
    \/ close

Spec == Init /\ [][Next]_vars

\* ----------------------------------------------------------------- helpers
Contains(rows, x) == \E i \in 1..Len(rows) : rows[i] = x

Writes == {"insert_emp", "update_pay", "remove_emp"}

\* rows of the table whose last column is lastname
with_last(t, lastname) == {i \in 1..Len(t) : t[i].last = lastname}

\* number of rows of t equal to r
copies(t, r) == Cardinality({i \in 1..Len(t) : t[i] = r})

\* ---------------------------------------------------------------------- C1
\* C1: when insert_emp(R) has returned normally and the very next call is
\* get_emps_by_name(R.last), the list it returns contains the tuple
\* (R.first, R.last, R.pay).
C1_InsertThenQuery ==
    [][ ( /\ last_call.op = "insert_emp"
          /\ last_call.exc = NoError
          /\ last_call'.op = "get_emps_by_name"
          /\ last_call'.last = last_call.last )
        => Contains(fetched',
                    <<last_call.first, last_call.last, last_call.pay>>) ]_vars

C1_Witness ==
    /\ last_call.op = "get_emps_by_name"
    /\ prev_call.op = "insert_emp"
    /\ prev_call.exc = NoError
    /\ prev_call.last = last_call.last
    /\ Len(fetched) = 2
    /\ \E i \in 1..Len(fetched) : fetched[i][1] = prev_call.first

\* ---------------------------------------------------------------------- C2
\* C2: when insert_emp(R) and then update_pay(R, p2) have returned normally
\* and the next call is get_emps_by_name(R.last), the returned list has a row
\* (R.first, R.last, p2), and every returned row with that first and last
\* has pay p2.
C2_InsertUpdateQuery ==
    [][ ( /\ prev_call.op = "insert_emp"
          /\ prev_call.exc = NoError
          /\ last_call.op = "update_pay"
          /\ last_call.exc = NoError
          /\ last_call.first = prev_call.first
          /\ last_call.last = prev_call.last
          /\ last_call'.op = "get_emps_by_name"
          /\ last_call'.last = last_call.last )
        => /\ Contains(fetched',
                       <<last_call.first, last_call.last, last_call.pay>>)
           /\ \A i \in 1..Len(fetched') :
                 (fetched'[i][1] = last_call.first
                    /\ fetched'[i][2] = last_call.last)
                 => fetched'[i][3] = last_call.pay ]_vars

\* the script's own insert(Jane); update_pay(Jane, 95000) followed by a query
C2_Witness ==
    /\ pc = 3
    /\ last_call.op = "get_emps_by_name"
    /\ last_call.last = "Doe"
    /\ prev_call.op = "update_pay"
    /\ prev_call.exc = NoError
    /\ prev_call.first = "Jane"
    /\ Contains(fetched, <<"Jane", "Doe", 95000>>)

\* ---------------------------------------------------------------------- C3
\* C3: when remove_emp(R) has returned normally and the next call is
\* get_emps_by_name(R.last), no returned row has first R.first and last
\* R.last, however many such rows the table held.
C3_RemoveThenQuery ==
    ( /\ last_call.op = "get_emps_by_name"
      /\ prev_call.op = "remove_emp"
      /\ prev_call.exc = NoError
      /\ prev_call.last = last_call.last )
    => \A i \in 1..Len(fetched) :
          ~(fetched[i][1] = prev_call.first /\ fetched[i][2] = prev_call.last)

C3_Witness ==
    /\ last_call.op = "get_emps_by_name"
    /\ prev_call.op = "remove_emp"
    /\ prev_call.exc = NoError
    /\ prev_call.last = last_call.last
    /\ Len(fetched) = 1
    /\ fetched[1][1] # prev_call.first

\* ---------------------------------------------------------------------- C4
\* C4: on an open connection, get_emps_by_name(x) for an x that is the last
\* name of no row returns the empty list, raises nothing and leaves the
\* table as it was.
C4_QueryNoMatch ==
    [][ ( /\ conn.open
          /\ last_call'.op = "get_emps_by_name"
          /\ with_last(conn.employees, last_call'.last) = {} )
        => /\ fetched' = <<>>
           /\ last_call'.exc = NoError
           /\ conn' = conn ]_vars

C4_Witness ==
    /\ conn.open
    /\ last_call.op = "get_emps_by_name"
    /\ last_call.exc = NoError
    /\ Len(conn.employees) > 0
    /\ with_last(conn.employees, last_call.last) = {}
    /\ fetched = <<>>

\* ---------------------------------------------------------------------- C5
\* C5: along the script, a query for 'Doe' after the two inserts returns
\* exactly John's and Jane's rows; after update_pay(Jane, 95000) it returns
\* Jane with 95000 and John unchanged; after remove_emp(John) it returns the
\* single row (Jane, Doe, 95000).
DoeQuery == last_call.op = "get_emps_by_name" /\ last_call.last = "Doe"

C5_Script ==
    /\ (DoeQuery /\ pc = 2)
         => /\ Len(fetched) = 2
            /\ Contains(fetched, <<"John", "Doe", 80000>>)
            /\ Contains(fetched, <<"Jane", "Doe", 90000>>)
    /\ (DoeQuery /\ pc = 3)
         => /\ Len(fetched) = 2
            /\ Contains(fetched, <<"John", "Doe", 80000>>)
            /\ Contains(fetched, <<"Jane", "Doe", 95000>>)
    /\ (DoeQuery /\ pc = 4)
         => fetched = << <<"Jane", "Doe", 95000>> >>

C5_Witness ==
    /\ DoeQuery
    /\ pc = 4
    /\ prev_call.op = "remove_emp"
    /\ fetched = << <<"Jane", "Doe", 95000>> >>

\* ---------------------------------------------------------------------- C6
\* C6: a remove_emp that follows a successful remove_emp of the same
\* identity, and any remove_emp whose identity matches no row, raises
\* nothing and leaves the connection's table exactly as it was.
C6_RemoveIdempotent ==
    [][ ( /\ last_call'.op = "remove_emp"
          /\ \/ /\ last_call.op = "remove_emp"
                /\ last_call.exc = NoError
                /\ last_call.first = last_call'.first
                /\ last_call.last = last_call'.last
             \/ matching(conn.employees,
                         last_call'.first, last_call'.last) = {} )
        => /\ last_call'.exc = NoError
           /\ conn' = conn ]_vars

C6_Witness ==
    /\ last_call.op = "remove_emp"
    /\ last_call.exc = NoError
    /\ prev_call.op = "remove_emp"
    /\ prev_call.exc = NoError
    /\ prev_call.first = last_call.first
    /\ prev_call.last = last_call.last
    /\ Len(conn.employees) > 0

\* ---------------------------------------------------------------------- C7
\* C7: after insert_emp, update_pay or remove_emp no transaction is left
\* open; if the call returned normally the committed table is the table the
\* statement produced, and if it raised the committed table and the
\* connection's view are those from before the call.
C7_Atomic ==
    [][ (last_call'.op \in Writes)
        => /\ ~conn'.in_transaction
           /\ conn'.committed = conn'.employees
           /\ (last_call'.exc # NoError) => conn' = conn ]_vars

C7_Witness ==
    /\ last_call.op \in Writes
    /\ last_call.exc # NoError
    /\ prev_call.op \in Writes
    /\ prev_call.exc = NoError
    /\ Len(conn.committed) > 0
    /\ conn.committed = conn.employees
    /\ ~conn.in_transaction

\* ---------------------------------------------------------------------- C8
\* C8: update_pay(R, p2) when no row has both first R.first and last R.last
\* raises nothing and leaves the table as it was, rows sharing only one of
\* the two names included.
C8_UpdateNoMatch ==
    [][ ( /\ last_call'.op = "update_pay"
          /\ matching(conn.employees,
                      last_call'.first, last_call'.last) = {} )
        => /\ last_call'.exc = NoError
           /\ conn' = conn ]_vars

C8_Witness ==
    /\ last_call.op = "update_pay"
    /\ last_call.exc = NoError
    /\ matching(conn.employees, last_call.first, last_call.last) = {}
    /\ \E i \in 1..Len(conn.employees) :
          /\ conn.employees[i].first = last_call.first
          /\ conn.employees[i].pay # last_call.pay
    /\ \E i \in 1..Len(conn.employees) :
          /\ conn.employees[i].last = last_call.last
          /\ conn.employees[i].pay # last_call.pay

\* ---------------------------------------------------------------------- C9
\* C9: an insert_emp(R) that returns normally adds exactly one row: the row
\* count and the number of rows equal to R each grow by one, also when an
\* identical row is already stored, and the rows stored before are unchanged.
C9_InsertAppendsOne ==
    [][ (last_call'.op = "insert_emp" /\ last_call'.exc = NoError)
        => LET r == [first |-> last_call'.first, last |-> last_call'.last,
                     pay |-> last_call'.pay]
               n == Len(conn.employees)
           IN  /\ Len(conn'.employees) = n + 1
               /\ copies(conn'.employees, r) = copies(conn.employees, r) + 1
               /\ \A i \in 1..n : conn'.employees[i] = conn.employees[i] ]_vars

C9_Witness ==
    /\ last_call.op = "insert_emp"
    /\ last_call.exc = NoError
    /\ Len(conn.employees) = 2
    /\ conn.employees[1] = conn.employees[2]

\* --------------------------------------------------------------------- C10
\* C10: update_pay(R, p2) never changes the number of rows nor the first or
\* last of any row, and leaves every row that differs from R in first or in
\* last exactly as it was.
C10_UpdateFrame ==
    [][ (last_call'.op = "update_pay")
        => /\ Len(conn'.employees) = Len(conn.employees)
           /\ \A i \in 1..Len(conn.employees) :
                 /\ conn'.employees[i].first = conn.employees[i].first
                 /\ conn'.employees[i].last = conn.employees[i].last
                 /\ (conn.employees[i].first # last_call'.first
                       \/ conn.employees[i].last # last_call'.last)
                    => conn'.employees[i] = conn.employees[i] ]_vars

C10_Witness ==
    /\ last_call.op = "update_pay"
    /\ last_call.exc = NoError
    /\ \E i, j \in 1..Len(conn.employees) :
          /\ conn.employees[i].first = last_call.first
          /\ conn.employees[i].last = last_call.last
          /\ conn.employees[i].pay = last_call.pay
          /\ conn.employees[j].first # last_call.first
          /\ conn.employees[j].last = last_call.last
          /\ conn.employees[j].pay # last_call.pay

====
